---- MODULE Spec2Model ----
(***************************************************************************)
(* The juicity server (server/server.go): New, Serve, handleConn,          *)
(* handleAuth and handleStream as a state machine of goroutines.           *)
(*                                                                         *)
(* One process per accepted connection runs handleConn's accept loop, one  *)
(* runs the auth goroutine (handleAuth and what follows it) and one runs   *)
(* handleStream for each accepted data stream.  The peer, the dialer, the  *)
(* relay and the timer of context.WithTimeout are the environment.         *)
(***************************************************************************)
EXTENDS Integers, Sequences, FiniteSets, TLC

\* Connections and data streams of a connection the model has room for.
NConn == 2
NStream == 2
\* Data streams the peer opens on its connection in a run of Spec.
NOpen == 1
\* The stream limits Serve is run with: 0..MaxLimit, and the integers within
\* MaxAbove of 2^53.
MaxLimit == 110
MaxAbove == 12

Conns == 1..NConn
Streams == 1..NStream
\* The peer of a run of Spec and the data streams it opens.
OnePeer == {1}
Opened == 1..NOpen

VARIABLES
    peers,       \* the connections whose peers connect in the run
    opens,       \* the data streams the peer of each connection opens in the run
    opts,        \* the *Options handed to New
    srv,         \* what New returned: [err, server]
    servepc,     \* Server.Serve: "listen", "accept", "returned"
    serveErr,    \* the error Serve returned
    quicConfig,  \* the quic.Config Serve handed to quic.ListenAddr
    logged,      \* the error the go func of Serve logged for each connection
    connpc,      \* handleConn of each connection
    connErr,     \* the error handleConn returned
    ctxDone,     \* ctx.Done() of handleConn is closed
    authCtxDone, \* authCtx.Done() of handleConn is closed
    transport,   \* the quic.Connection: who closed it, with which code and reason
    authpc,      \* the auth goroutine of handleConn, handleAuth included
    authErr,     \* the error handleAuth returned
    timerFired,  \* the deadline of handleAuth's context.WithTimeout has passed
    stream       \* handleStream of each data stream

vars == <<peers, opens, opts, srv, servepc, serveErr, quicConfig, logged, connpc, connErr, ctxDone, authCtxDone,
          transport, authpc, authErr, timerFired, stream>>

newVars == <<peers, opens, opts, srv>>
serveVars == <<servepc, serveErr, quicConfig, logged>>
connVars == <<connpc, connErr, ctxDone, authCtxDone, transport, authpc, authErr,
              timerFired, stream>>

-----------------------------------------------------------------------------
(* int64 and float64 *)

\* An int64 that is not negative, as <<hi, lo>> = hi * Limb + lo with lo < Limb.
Limb == 100000000
Int64(n) == <<n \div Limb, n % Limb>>
TwoTo53 == <<90071992, 54740992>>

Less(a, b) == a[1] < b[1] \/ (a[1] = b[1] /\ a[2] < b[2])

\* a + b; the sums of the model stay far below 2^63
Add(a, b) == <<a[1] + b[1] + (a[2] + b[2]) \div Limb, (a[2] + b[2]) % Limb>>

\* float64(n) for n < 2^54: exact below 2^53; from 2^53 on only the even
\* integers are float64 values and an odd n goes to the neighbour whose
\* mantissa is even, the multiple of 4.
float64(n) ==
    IF Less(n, TwoTo53) \/ n[2] % 2 = 0 THEN n
    ELSE IF (n[2] - 1) % 4 = 0 THEN <<n[1], n[2] - 1>>
    ELSE Add(n, Int64(1))

\* x / 10.0 for an integral x < 2^54: the integer part and the tenths of the
\* quotient.  The float64 nearest to it is less than a tenth away, so it is
\* an integer only when the quotient is.
Div10(x) ==
    [quo |-> <<x[1] \div 10, ((x[1] % 10) * Limb + x[2]) \div 10>>,
     tenths |-> x[2] % 10]

\* A rounding towards zero.
Ceil_truncated(q) == q.quo

\* math.Ceil
Ceil(q) == IF q.tenths > 0 THEN Add(q.quo, Int64(1)) ELSE q.quo

-----------------------------------------------------------------------------
(* New *)

\* The texts of client identifiers a configuration may hold.  uuid.Parse reads
\* the hexadecimal digits of either case, so two texts can name one UUID.
UUIDs == {"U1", "U2"}
Passwords == {"S1", "S2"}
IdTexts == [enc : {"lower", "upper"}, uuid : UUIDs]
               \cup {[enc |-> "malformed", uuid |-> "none"]}
ParseError == "invalid UUID"
NoServer == "nil"

uuidParse(text) == IF text.enc = "malformed" THEN ParseError ELSE text.uuid

SendThroughs == {"", "192.0.2.1", "not-an-address"}
netipParseAddrOk(a) == a = "192.0.2.1"

UsersMaps == UNION {[T -> Passwords] : T \in SUBSET IdTexts}

Options == [Users : UsersMaps, KeyPairOk : BOOLEAN, SendThrough : SendThroughs,
            Fwmark : {7}]

\* A loop that stored a secret no entry of opts.Users gives its identifier.
BuiltUsers_anySecret(o) ==
    [{uuidParse(t) : t \in DOMAIN o.Users} -> Passwords]

\* The users maps the loop of New can build: the entries of opts.Users are
\* visited in an unspecified order and users[id] keeps the last one written.
BuiltUsers(o) ==
    LET ids == {uuidParse(t) : t \in DOMAIN o.Users}
    IN  {u \in [ids -> Passwords] :
            \A id \in ids : \E t \in DOMAIN o.Users :
                uuidParse(t) = id /\ o.Users[t] = u[id]}

Dialer(o) == IF o.SendThrough # "" THEN [kind |-> "DirectDialerLaddr",
                                        laddr |-> o.SendThrough]
                                   ELSE [kind |-> "FullconeDirect", laddr |-> ""]

NewOutcomes(o) ==
    IF \E t \in DOMAIN o.Users : uuidParse(t) = ParseError
    THEN {[err |-> "parse uuid", server |-> NoServer]}
    ELSE IF ~o.KeyPairOk
    THEN {[err |-> "load key pair", server |-> NoServer]}
    ELSE IF o.SendThrough # "" /\ ~netipParseAddrOk(o.SendThrough)
    THEN {[err |-> "parse send_through", server |-> NoServer]}
    ELSE {[err |-> "nil",
           server |-> [users |-> u, dialer |-> Dialer(o), fwmark |-> o.Fwmark,
                       maxOpenIncomingStreams |-> Int64(100), cwnd |-> 10]] :
            u \in BuiltUsers(o)}

NotBuilt == [err |-> "not called", server |-> NoServer]

New ==
    /\ srv = NotBuilt
    /\ srv' \in NewOutcomes(opts)
    /\ UNCHANGED <<peers, opens, opts, serveVars, connVars>>

\* The configuration of the running server: identifier U1 with secret S1.
RunOptions ==
    [Users |-> [t \in {[enc |-> "lower", uuid |-> "U1"]} |-> "S1"],
     KeyPairOk |-> TRUE, SendThrough |-> "", Fwmark |-> 7]

-----------------------------------------------------------------------------
(* The connection, its contexts and its streams *)

Open == [by |-> "none", code |-> "none", reason |-> ""]
AuthenticationFailed == "AuthenticationFailed"
ErrAuthenticationFailed == "authentication failed"

IsOpen(c) == transport[c].by = "none"

\* conn.CloseWithError: the first close decides what the peer sees.
CloseWithError(c, code, reason) ==
    IF IsOpen(c)
    THEN [transport EXCEPT ![c] = [by |-> "server", code |-> code, reason |-> reason]]
    ELSE transport

Hosts == {"example.com", "example.org"}
Ports == {80}
Networks == {"tcp", "udp", "sctp"}
Metadata == [Network : Networks, Hostname : Hosts, Port : Ports]
\* The headers the peer sends: tcp requests name either host.
Requests == {m \in Metadata : m.Network = "tcp" \/ m.Hostname = "example.com"}

NoMetadata == [Network |-> "", Hostname |-> "", Port |-> 0]
\* dialErr and relayErr are what s.dialer.Dial and the relay returned
NewStream == [pc |-> "none", mdata |-> NoMetadata, err |-> "none",
              dials |-> <<>>, relays |-> <<>>, dialErr |-> "none",
              relayErr |-> "none", closed |-> FALSE, warned |-> FALSE]

NoConfig == [MaxIncomingStreams |-> <<>>, MaxIncomingUniStreams |-> <<>>]

\* Serve has not been called and no connection exists.
NothingAccepted ==
    /\ servepc = "listen"
    /\ serveErr = "none"
    /\ quicConfig = NoConfig
    /\ logged = [c \in Conns |-> "none"]
    /\ connpc = [c \in Conns |-> "none"]
    /\ connErr = [c \in Conns |-> "none"]
    /\ ctxDone = [c \in Conns |-> FALSE]
    /\ authCtxDone = [c \in Conns |-> FALSE]
    /\ transport = [c \in Conns |-> Open]
    /\ authpc = [c \in Conns |-> "none"]
    /\ authErr = [c \in Conns |-> "none"]
    /\ timerFired = [c \in Conns |-> FALSE]
    /\ stream = [c \in Conns |-> [st \in Streams |-> NewStream]]

\* One peer connects and opens up to NOpen data streams.
Init ==
    /\ peers = OnePeer
    /\ opens = [c \in Conns |-> NOpen]
    /\ opts = RunOptions
    /\ srv \in NewOutcomes(RunOptions)
    /\ NothingAccepted

\* One peer connects and opens up to NStream data streams.
InitPair ==
    /\ peers = OnePeer
    /\ opens = [c \in Conns |-> NStream]
    /\ opts = RunOptions
    /\ srv \in NewOutcomes(RunOptions)
    /\ NothingAccepted

\* NConn peers connect.
InitServe ==
    /\ peers = Conns
    /\ opens = [c \in Conns |-> 0]
    /\ opts = RunOptions
    /\ srv \in NewOutcomes(RunOptions)
    /\ NothingAccepted

\* NConn peers connect; the last of them opens up to NOpen data streams.
InitIso ==
    /\ peers = Conns
    /\ opens = [c \in Conns |-> IF c = NConn THEN NOpen ELSE 0]
    /\ opts = RunOptions
    /\ srv \in NewOutcomes(RunOptions)
    /\ NothingAccepted

\* The stream limits of the servers Serve is run on.
Limits == {Int64(n) : n \in 0..MaxLimit}
              \cup {<<TwoTo53[1], TwoTo53[2] + k>> : k \in (0 - MaxAbove)..MaxAbove}

\* Serve is called on a server with any of the stream limits.
InitLimit ==
    /\ peers = {}
    /\ opens = [c \in Conns |-> 0]
    /\ opts = RunOptions
    /\ \E built \in NewOutcomes(RunOptions), L \in Limits :
          srv = [built EXCEPT !.server.maxOpenIncomingStreams = L]
    /\ NothingAccepted

\* New is called with any of the options.
InitNew ==
    /\ peers = {}
    /\ opens = [c \in Conns |-> 0]
    /\ opts \in Options
    /\ srv = NotBuilt
    /\ NothingAccepted

-----------------------------------------------------------------------------
(* Serve *)

\* quicMaxOpenIncomingStreams + int64(math.Ceil(float64(quicMaxOpenIncomingStreams)/10.0))
quicMaxOpenIncomingStreams(limit) == Add(limit, Ceil(Div10(float64(limit))))

\* quic.ListenAddr with the quic.Config of Serve
Serve_Listen ==
    /\ servepc = "listen"
    /\ quicConfig' =
          [MaxIncomingStreams |->
               quicMaxOpenIncomingStreams(srv.server.maxOpenIncomingStreams),
           MaxIncomingUniStreams |->
               quicMaxOpenIncomingStreams(srv.server.maxOpenIncomingStreams)]
    /\ \E ok \in BOOLEAN :
          IF ok THEN servepc' = "accept" /\ serveErr' = serveErr
                ELSE servepc' = "returned" /\ serveErr' = "listen error"
    /\ UNCHANGED <<newVars, logged, connVars>>

\* listener.Accept returns a connection; go func(conn) calls handleConn, which
\* makes ctx and authCtx, starts the auth goroutine and enters its accept loop.
Serve_Accept(c) ==
    /\ servepc = "accept"
    /\ c \in peers
    /\ connpc[c] = "none"
    /\ \A d \in Conns : d < c => connpc[d] # "none"
    /\ connpc' = [connpc EXCEPT ![c] = "accept"]
    /\ authpc' = [authpc EXCEPT ![c] = "AcceptUniStream"]
    /\ UNCHANGED <<newVars, serveVars, connErr, ctxDone, authCtxDone, transport,
                   authErr, timerFired, stream>>

\* listener.Accept fails
Serve_AcceptError ==
    /\ servepc = "accept"
    /\ servepc' = "returned"
    /\ serveErr' = "accept error"
    /\ UNCHANGED <<newVars, quicConfig, logged, connVars>>

-----------------------------------------------------------------------------
(* The peer and the network *)

\* The peer closes the connection, or it is lost and the idle timeout ends it.
TransportEnds(c) ==
    /\ connpc[c] # "none"
    /\ IsOpen(c)
    /\ transport' = [transport EXCEPT ![c] = [by |-> "remote", code |-> "none", reason |-> ""]]
    /\ UNCHANGED <<newVars, serveVars, connpc, connErr, ctxDone, authCtxDone,
                   authpc, authErr, timerFired, stream>>

\* The 10 seconds of AuthenticateTimeout pass while handleAuth runs.
HandleAuthRunning(c) == authpc[c] \in {"AcceptUniStream", "Peek", "ReadCommandHead",
                                        "ReadAuthenticateWithHead"}

AuthenticateTimeout(c) ==
    /\ HandleAuthRunning(c)
    /\ ~timerFired[c]
    /\ timerFired' = [timerFired EXCEPT ![c] = TRUE]
    /\ UNCHANGED <<newVars, serveVars, connpc, connErr, ctxDone, authCtxDone,
                   transport, authpc, authErr, stream>>

-----------------------------------------------------------------------------
(* handleAuth and the auth goroutine of handleConn *)

\* handleAuth returns; defer cancel() releases the timer of its context
returnAuth(c, pc, err) ==
    /\ authpc' = [authpc EXCEPT ![c] = pc]
    /\ authErr' = [authErr EXCEPT ![c] = err]
    /\ timerFired' = [timerFired EXCEPT ![c] = FALSE]

\* conn.AcceptUniStream(ctx) returns the control stream the peer opened, ctx
\* (ended by the deadline or by the cancel of its parent) still live
handleAuth_AcceptUniStream(c) ==
    /\ authpc[c] = "AcceptUniStream"
    /\ IsOpen(c)
    /\ ~timerFired[c]
    /\ ~ctxDone[c]
    /\ authpc' = [authpc EXCEPT ![c] = "Peek"]
    /\ UNCHANGED <<newVars, serveVars, connpc, connErr, ctxDone, authCtxDone,
                   transport, authErr, timerFired, stream>>

\* conn.AcceptUniStream(ctx) fails: the deadline passed, ctx was cancelled or
\* the connection is closed
AcceptUniStreamErrors(c) ==
    {e \in {"context deadline exceeded", "context canceled", "connection closed"} :
        \/ e = "context deadline exceeded" /\ timerFired[c]
        \/ e = "context canceled" /\ ctxDone[c]
        \/ e = "connection closed" /\ ~IsOpen(c)}

handleAuth_AcceptUniStreamError(c) ==
    /\ authpc[c] = "AcceptUniStream"
    /\ \E e \in AcceptUniStreamErrors(c) : returnAuth(c, "failed", e)
    /\ UNCHANGED <<newVars, serveVars, connpc, connErr, ctxDone, authCtxDone,
                   transport, stream>>

Versions == {"Version0", "other"}
CmdTypes == {"AuthenticateType", "other"}

\* r.Peek(1) returns the first byte
handleAuth_Peek(c) ==
    /\ authpc[c] = "Peek"
    /\ IsOpen(c)
    /\ \E v \in Versions :
          IF v = "Version0"
          THEN /\ authpc' = [authpc EXCEPT ![c] = "ReadCommandHead"]
               /\ UNCHANGED <<authErr, timerFired>>
          ELSE returnAuth(c, "failed", "unexpected version")
    /\ UNCHANGED <<newVars, serveVars, connpc, connErr, ctxDone, authCtxDone,
                   transport, stream>>

\* tuic.ReadCommandHead returns the head
handleAuth_ReadCommandHead(c) ==
    /\ authpc[c] = "ReadCommandHead"
    /\ IsOpen(c)
    /\ \E t \in CmdTypes :
          IF t = "AuthenticateType"
          THEN /\ authpc' = [authpc EXCEPT ![c] = "ReadAuthenticateWithHead"]
               /\ UNCHANGED <<authErr, timerFired>>
          ELSE returnAuth(c, "failed", "unexpected cmd type")
    /\ UNCHANGED <<newVars, serveVars, connpc, connErr, ctxDone, authCtxDone,
                   transport, stream>>

\* A handleAuth that waits for another control stream when a read fails.
handleAuth_ReadError_retries(c) ==
    /\ authpc[c] \in {"Peek", "ReadCommandHead", "ReadAuthenticateWithHead"}
    /\ authpc' = [authpc EXCEPT ![c] = "AcceptUniStream"]
    /\ UNCHANGED <<newVars, serveVars, connpc, connErr, ctxDone, authCtxDone,
                   transport, authErr, timerFired, stream>>

\* a read of the control stream fails: the peer ended or reset the stream, or
\* the connection is closed
handleAuth_ReadError(c) ==
    /\ authpc[c] \in {"Peek", "ReadCommandHead", "ReadAuthenticateWithHead"}
    /\ returnAuth(c, "failed", "read error")
    /\ UNCHANGED <<newVars, serveVars, connpc, connErr, ctxDone, authCtxDone,
                   transport, stream>>

\* tuic.GenToken: the token of a session, an identifier and a secret
GenToken(c, uuid, password) == <<c, uuid, password>>

\* tuic.ReadAuthenticateWithHead returns the identifier and the token; the
\* lookup in s.users and the comparison follow
handleAuth_Authenticate(c) ==
    /\ authpc[c] = "ReadAuthenticateWithHead"
    /\ IsOpen(c)
    /\ \E uuid \in UUIDs, secret \in Passwords, genOk \in BOOLEAN :
          LET TOKEN == GenToken(c, uuid, secret)
              users == srv.server.users
          IN  IF uuid \in DOMAIN users
              THEN IF ~genOk
                   THEN returnAuth(c, "failed", "GenToken") /\ transport' = transport
                   ELSE IF GenToken(c, uuid, users[uuid]) = TOKEN
                   THEN returnAuth(c, "ok", "nil") /\ transport' = transport
                   ELSE /\ transport' = CloseWithError(c, AuthenticationFailed,
                                                      ErrAuthenticationFailed)
                        /\ returnAuth(c, "failed", "token mismatch")
              ELSE returnAuth(c, "failed", "unknown uuid") /\ transport' = transport
    /\ UNCHANGED <<newVars, serveVars, connpc, connErr, ctxDone, authCtxDone,
                   stream>>

\* handleAuth returned nil: authDone()
auth_authDone(c) ==
    /\ authpc[c] = "ok"
    /\ authCtxDone' = [authCtxDone EXCEPT ![c] = TRUE]
    /\ authpc' = [authpc EXCEPT ![c] = "resolved"]
    /\ UNCHANGED <<newVars, serveVars, connpc, connErr, ctxDone, transport,
                   authErr, timerFired, stream>>

\* cancel() of ctx: ctx and its child authCtx are done
cancel(c) ==
    /\ ctxDone' = [ctxDone EXCEPT ![c] = TRUE]
    /\ authCtxDone' = [authCtxDone EXCEPT ![c] = TRUE]

\* handleAuth returned an error: cancel()
auth_cancel(c) ==
    /\ authpc[c] = "failed"
    /\ cancel(c)
    /\ authpc' = [authpc EXCEPT ![c] = "cancelled"]
    /\ UNCHANGED <<newVars, serveVars, connpc, connErr, transport, authErr,
                   timerFired, stream>>

\* An auth goroutine that returned after cancel() without closing the transport.
auth_CloseWithError_forgotten(c) ==
    /\ authpc[c] = "cancelled"
    /\ authpc' = [authpc EXCEPT ![c] = "closed"]
    /\ UNCHANGED <<newVars, serveVars, connpc, connErr, ctxDone, authCtxDone,
                   transport, authErr, timerFired, stream>>

\* then conn.CloseWithError(tuic.AuthenticationFailed, "")
auth_CloseWithError(c) ==
    /\ authpc[c] = "cancelled"
    /\ transport' = CloseWithError(c, AuthenticationFailed, "")
    /\ authpc' = [authpc EXCEPT ![c] = "closed"]
    /\ UNCHANGED <<newVars, serveVars, connpc, connErr, ctxDone, authCtxDone,
                   authErr, timerFired, stream>>

-----------------------------------------------------------------------------
(* handleConn *)

\* conn.AcceptStream(ctx) returns a stream, ctx still live; go func(...) calls
\* handleStream
handleConn_AcceptStream(c, st) ==
    /\ connpc[c] = "accept"
    /\ IsOpen(c)
    /\ ~ctxDone[c]
    /\ st <= opens[c]
    /\ stream[c][st].pc = "none"
    /\ \A t \in Streams : t < st => stream[c][t].pc # "none"
    /\ stream' = [stream EXCEPT ![c][st].pc = "header"]
    /\ UNCHANGED <<newVars, serveVars, connpc, connErr, ctxDone, authCtxDone,
                   transport, authpc, authErr, timerFired>>

\* conn.AcceptStream(ctx) fails: ctx is cancelled or the connection is closed
AcceptStreamErrors(c) ==
    {e \in {"context canceled", "closed by server", "closed by peer", "idle timeout"} :
        \/ e = "context canceled" /\ ctxDone[c]
        \/ e = "closed by server" /\ transport[c].by = "server"
        \/ e = "closed by peer" /\ transport[c].by = "remote"
        \/ e = "idle timeout" /\ transport[c].by = "remote"}

\* return err: the deferred calls run last in, first out, authDone() first
handleConn_AcceptStreamError(c) ==
    /\ connpc[c] = "accept"
    /\ \E e \in AcceptStreamErrors(c) : connErr' = [connErr EXCEPT ![c] = e]
    /\ authCtxDone' = [authCtxDone EXCEPT ![c] = TRUE]
    /\ connpc' = [connpc EXCEPT ![c] = "defer cancel"]
    /\ UNCHANGED <<newVars, serveVars, ctxDone, transport, authpc, authErr,
                   timerFired, stream>>

\* errors.As(err, &netError) && netError.Timeout(): of the errors AcceptStream
\* returns only the idle timeout is a net.Error that timed out; context.Canceled
\* and the application close are not.
IsTimeout(err) == err = "idle timeout"

\* the go func of Serve: if err := s.handleConn(conn); err != nil { ... Warn }
Serve_Warn(c, err) ==
    logged' = [logged EXCEPT ![c] = IF err # "nil" /\ ~IsTimeout(err) THEN err ELSE "none"]

\* A Serve that returned the error of a connection's handleConn.
handleConn_deferCancel_fatal(c) ==
    /\ connpc[c] = "defer cancel"
    /\ cancel(c)
    /\ connpc' = [connpc EXCEPT ![c] = "returned"]
    /\ Serve_Warn(c, connErr[c])
    /\ servepc' = "returned"
    /\ serveErr' = connErr[c]
    /\ UNCHANGED <<newVars, quicConfig, connErr, transport, authpc, authErr, timerFired,
                   stream>>

\* A handleConn without its defer cancel().
handleConn_deferCancel_noCancel(c) ==
    /\ connpc[c] = "defer cancel"
    /\ connpc' = [connpc EXCEPT ![c] = "returned"]
    /\ Serve_Warn(c, connErr[c])
    /\ UNCHANGED <<newVars, servepc, serveErr, quicConfig, connErr, ctxDone, authCtxDone,
                   transport, authpc, authErr, timerFired, stream>>

\* defer cancel(); handleConn has returned to the go func of Serve
handleConn_deferCancel(c) ==
    /\ connpc[c] = "defer cancel"
    /\ cancel(c)
    /\ connpc' = [connpc EXCEPT ![c] = "returned"]
    /\ Serve_Warn(c, connErr[c])
    /\ UNCHANGED <<newVars, servepc, serveErr, quicConfig, connErr, transport, authpc,
                   authErr, timerFired, stream>>

-----------------------------------------------------------------------------
(* handleStream *)

\* A handleStream that closes the stream only on the path that returns nil.
returnStream_closeOnSuccess(c, st, err) ==
    stream' = [stream EXCEPT ![c][st].pc = "done", ![c][st].err = err,
                             ![c][st].closed = (err = "nil"),
                             ![c][st].warned = (err # "nil")]

\* handleStream returns err; defer stream.Close(); the go func of handleConn
\* logs a warning when err is not nil
returnStream(c, st, err) ==
    stream' = [stream EXCEPT ![c][st].pc = "done", ![c][st].err = err,
                             ![c][st].closed = TRUE,
                             ![c][st].warned = (err # "nil")]

\* lConn.Read(nil) reads the header into lConn.Metadata
handleStream_ReadHeader(c, st) ==
    /\ stream[c][st].pc = "header"
    /\ IsOpen(c)
    /\ \E m \in Requests :
          stream' = [stream EXCEPT ![c][st].pc = "gate", ![c][st].mdata = m]
    /\ UNCHANGED <<newVars, serveVars, connpc, connErr, ctxDone, authCtxDone,
                   transport, authpc, authErr, timerFired>>

\* A dispatcher whose failure to read the header cancels the connection.
handleStream_ReadHeaderError_cancels(c, st) ==
    /\ stream[c][st].pc = "header"
    /\ returnStream(c, st, "header error")
    /\ cancel(c)
    /\ UNCHANGED <<newVars, serveVars, connpc, connErr,
                   transport, authpc, authErr, timerFired>>

\* lConn.Read(nil) fails: a malformed header, or the stream or the connection ended
handleStream_ReadHeaderError(c, st) ==
    /\ stream[c][st].pc = "header"
    /\ returnStream(c, st, "header error")
    /\ UNCHANGED <<newVars, serveVars, connpc, connErr, ctxDone, authCtxDone,
                   transport, authpc, authErr, timerFired>>

\* A gate that any connection's auth scope opens.
GateOpen_anyConn(c) == \E d \in Conns : authCtxDone[d]

\* <-authCtx.Done()
GateOpen(c) == authCtxDone[c]

handleStream_Gate(c, st) ==
    /\ stream[c][st].pc = "gate"
    /\ GateOpen(c)
    /\ stream' = [stream EXCEPT ![c][st].pc = "select"]
    /\ UNCHANGED <<newVars, serveVars, connpc, connErr, ctxDone, authCtxDone,
                   transport, authpc, authErr, timerFired>>

\* A dispatcher that did not look at ctx after the gate.
CtxCancelled_never(c) == FALSE

\* select { case <-ctx.Done(): ... default: }
CtxCancelled(c) == ctxDone[c]

\* uint32(s.fwmark), as its high and low 16 bits
Uint32(n) == <<(n \div 65536) % 65536, n % 65536>>

JoinHostPort(host, port) == <<host, port>>

MagicNetwork(network, mark) == [Network |-> network, Mark |-> mark]

\* A dial that left the mark out.
DialCall_unmarked(m) == [network |-> MagicNetwork("tcp", Uint32(0)),
                         addr |-> JoinHostPort(m.Hostname, m.Port)]

DialCall(m) == [network |-> MagicNetwork("tcp", Uint32(srv.server.fwmark)),
                addr |-> JoinHostPort(m.Hostname, m.Port)]

\* A switch without its default case: what is not tcp is relayed as udp.
switchNetwork_noDefault(c, st, m) ==
    IF m.Network = "tcp"
    THEN stream' = [stream EXCEPT ![c][st].pc = "Dial",
                       ![c][st].dials = Append(@, DialCall(m))]
    ELSE stream' = [stream EXCEPT ![c][st].pc = "RelayUoT",
                       ![c][st].relays = Append(@, "RelayUoT")]

\* switch mdata.Network, up to the call of the dialer or of the relay
switchNetwork(c, st, m) ==
    IF m.Network = "tcp"
    THEN stream' = [stream EXCEPT ![c][st].pc = "Dial",
                       ![c][st].dials = Append(@, DialCall(m))]
    ELSE IF m.Network = "udp"
    THEN stream' = [stream EXCEPT ![c][st].pc = "RelayUoT",
                       ![c][st].relays = Append(@, "RelayUoT")]
    ELSE returnStream(c, st, "unexpected network")

\* the select on ctx.Done() and the switch
handleStream_Dispatch(c, st) ==
    /\ stream[c][st].pc = "select"
    /\ IF CtxCancelled(c)
       THEN returnStream(c, st, "context canceled")
       ELSE switchNetwork(c, st, stream[c][st].mdata)
    /\ UNCHANGED <<newVars, serveVars, connpc, connErr, ctxDone, authCtxDone,
                   transport, authpc, authErr, timerFired>>

\* What s.dialer.Dial returns: nil, a net.Error that timed out, another error
DialResults == {"nil", "i/o timeout", "connection refused"}

\* A dispatcher that returns every error of the dialer.
DialError_surfaced(r) == r

\* if errors.As(err, &netErr) && netErr.Timeout() { return nil }; return err
DialError(r) == IF r = "i/o timeout" THEN "nil" ELSE r

\* s.dialer.Dial returns; on success RelayTCP is called
handleStream_DialReturns(c, st) ==
    /\ stream[c][st].pc = "Dial"
    /\ \E r \in DialResults :
          IF r = "nil"
          THEN stream' = [stream EXCEPT ![c][st].pc = "RelayTCP",
                             ![c][st].dialErr = r,
                             ![c][st].relays = Append(@, "RelayTCP")]
          ELSE stream' = [stream EXCEPT ![c][st].pc = "done",
                             ![c][st].dialErr = r,
                             ![c][st].err = DialError(r),
                             ![c][st].closed = TRUE,
                             ![c][st].warned = (DialError(r) # "nil")]
    /\ UNCHANGED <<newVars, serveVars, connpc, connErr, ctxDone, authCtxDone,
                   transport, authpc, authErr, timerFired>>

\* What a relay returns: nil, io.EOF, a net.Error that timed out, or the
\* error of a stream the peer closed with an error code
RelayResults == {"nil", "EOF", "i/o timeout", "closed 0", "closed 263"}

\* err.Error(), in words
ErrorText(r) ==
    CASE r = "EOF" -> <<"EOF">>
      [] r = "i/o timeout" -> <<"i/o", "timeout">>
      [] r = "closed 0" -> <<"closed", "with", "error", "code", "0">>
      [] r = "closed 263" -> <<"closed", "with", "error", "code", "263">>

\* strings.HasSuffix
HasSuffix(s, suffix) ==
    /\ Len(s) >= Len(suffix)
    /\ SubSeq(s, Len(s) - Len(suffix) + 1, Len(s)) = suffix

\* A classification that looks for the text only after RelayTCP.
Benign_tcpText(kind, r) ==
    \/ r = "EOF"
    \/ r = "i/o timeout"
    \/ kind = "RelayTCP" /\ HasSuffix(ErrorText(r), <<"with", "error", "code", "0">>)

\* errors.Is(err, io.EOF) || timeout || strings.HasSuffix(err.Error(), "with error code 0")
Benign(kind, r) ==
    \/ r = "EOF"
    \/ r = "i/o timeout"
    \/ HasSuffix(ErrorText(r), <<"with", "error", "code", "0">>)

\* fmt.Errorf("relay tcp error: %w", err), fmt.Errorf("relay udp error: %w", err)
RelayError(kind, r) ==
    IF r = "nil" \/ Benign(kind, r) THEN "nil"
    ELSE IF kind = "RelayTCP" THEN "relay tcp error" ELSE "relay udp error"

\* s.relay.RelayTCP or s.relay.RelayUoT returns
handleStream_RelayReturns(c, st) ==
    /\ stream[c][st].pc \in {"RelayTCP", "RelayUoT"}
    /\ \E r \in RelayResults :
          LET err == RelayError(stream[c][st].pc, r)
          IN  stream' = [stream EXCEPT ![c][st].pc = "done",
                            ![c][st].relayErr = r,
                            ![c][st].err = err,
                            ![c][st].closed = TRUE,
                            ![c][st].warned = (err # "nil")]
    /\ UNCHANGED <<newVars, serveVars, connpc, connErr, ctxDone, authCtxDone,
                   transport, authpc, authErr, timerFired>>

-----------------------------------------------------------------------------

ServeNext ==
    \/ Serve_Listen
    \/ Serve_AcceptError
    \/ \E c \in Conns : Serve_Accept(c)

AuthNext(c) ==
    \/ handleAuth_AcceptUniStream(c)
    \/ handleAuth_AcceptUniStreamError(c)
    \/ handleAuth_Peek(c)
    \/ handleAuth_ReadCommandHead(c)
    \/ handleAuth_ReadError(c)
    \/ handleAuth_Authenticate(c)
    \/ auth_authDone(c)
    \/ auth_cancel(c)
    \/ auth_CloseWithError(c)

ConnNext(c) ==
    \/ \E st \in Streams : handleConn_AcceptStream(c, st)
    \/ handleConn_AcceptStreamError(c)
    \/ handleConn_deferCancel(c)

StreamNext(c, st) ==
    \/ handleStream_ReadHeader(c, st)
    \/ handleStream_ReadHeaderError(c, st)
    \/ handleStream_Gate(c, st)
    \/ handleStream_Dispatch(c, st)
    \/ handleStream_DialReturns(c, st)
    \/ handleStream_RelayReturns(c, st)

Next ==
    \/ ServeNext
    \/ \E c \in Conns :
          \/ TransportEnds(c)
          \/ AuthenticateTimeout(c)
          \/ AuthNext(c)
          \/ ConnNext(c)
          \/ \E st \in Streams : StreamNext(c, st)

Spec == Init /\ [][Next]_vars

\* One connection with sibling data streams.
SpecPair == InitPair /\ [][Next]_vars

\* Serve and the connections it accepts, their peers opening no data stream.
NextServe ==
    \/ ServeNext
    \/ \E c \in Conns :
          \/ TransportEnds(c)
          \/ AuthenticateTimeout(c)
          \/ AuthNext(c)
          \/ handleConn_AcceptStreamError(c)
          \/ handleConn_deferCancel(c)

SpecServe == InitServe /\ [][NextServe]_vars

\* Concurrent connections, one of them with data streams, under a listener
\* that keeps accepting.
NextIso ==
    \/ Serve_Listen
    \/ \E c \in Conns :
          \/ Serve_Accept(c)
          \/ TransportEnds(c)
          \/ AuthenticateTimeout(c)
          \/ AuthNext(c)
          \/ ConnNext(c)
          \/ \E st \in Streams : StreamNext(c, st)

SpecIso == InitIso /\ [][NextIso]_vars

SpecNew == InitNew /\ [][New]_vars

\* Serve up to its accept loop, no peer connecting.
NextLimit ==
    \/ Serve_Listen
    \/ Serve_AcceptError

SpecLimit == InitLimit /\ [][NextLimit]_vars

\* The scheduler runs a goroutine that can take a step of its own: the auth
\* goroutine once handleAuth has returned, a dispatcher at the gate and at the
\* select.  Nothing makes the peer send, the dialer return or a relay end.
Fairness ==
    \A c \in OnePeer :
        /\ WF_vars(auth_authDone(c))
        /\ WF_vars(auth_cancel(c))
        /\ WF_vars(auth_CloseWithError(c))
        /\ \A st \in Opened :
              /\ WF_vars(handleStream_Gate(c, st))
              /\ WF_vars(handleStream_Dispatch(c, st))

FairSpec == Spec /\ Fairness

-----------------------------------------------------------------------------
(* The claims *)

\* handleAuth has returned nil
AuthSucceeded(c) == authpc[c] \in {"ok", "resolved"}

Dialed(c, st) == stream[c][st].dials # <<>>
Relayed(c, st) == stream[c][st].relays # <<>>

\* C1: a dispatcher calls Dialer.Dial, RelayTCP or RelayUoT only when
\* handleAuth of its connection has returned success.
C1_RelayOnlyAfterAuthSuccess ==
    \A c \in Conns, st \in Streams :
        Dialed(c, st) \/ Relayed(c, st) => AuthSucceeded(c)

\* C2: on a connection whose token did not match no dispatcher reaches the
\* dialer: no Dial and no RelayUoT.
C2_MismatchNeverReachesDialer ==
    \A c \in Conns, st \in Streams :
        authErr[c] = "token mismatch" => ~Dialed(c, st) /\ ~Relayed(c, st)

\* C3: once AuthenticateTimeout has passed handleAuth has returned, or the
\* deadline ends the call it is blocked in.
C3_AuthBoundedByTimeout ==
    \A c \in Conns :
        timerFired[c] => ENABLED handleAuth_AcceptUniStreamError(c)

C5_CloseHidesIdentifier ==
    \A c1, c2 \in Conns :
        /\ authErr[c1] = "unknown uuid" /\ transport[c1].by = "server"
        /\ authErr[c2] = "token mismatch" /\ transport[c2].by = "server"
        => /\ transport[c1].code = transport[c2].code
           /\ transport[c1].reason = transport[c2].reason

\* C6: after handleAuth returns an error the auth goroutine cancels the root
\* scope, then closes the transport with the AuthenticationFailed code, and so
\* reaches a state with the root scope cancelled and the transport closed.
C6_FailureCancelsThenCloses ==
    /\ [](\A c \in Conns :
            /\ authpc[c] \in {"cancelled", "closed"} => ctxDone[c]
            /\ authpc[c] = "closed" => ~IsOpen(c)
            /\ transport[c].by = "server" => transport[c].code = AuthenticationFailed)
    /\ \A c \in OnePeer :
          authpc[c] = "failed" ~> (authpc[c] = "closed" /\ ctxDone[c] /\ ~IsOpen(c))

C6_Witness ==
    \E c \in Conns :
        /\ authpc[c] = "closed"
        /\ authErr[c] = "unexpected version"
        /\ ctxDone[c]
        /\ transport[c] = [by |-> "server", code |-> AuthenticationFailed, reason |-> ""]

\* The call of the dialer the claim asks for: tcp, the configured mark, the
\* host and port of the header.
ExpectedDial(m) ==
    [network |-> [Network |-> "tcp", Mark |-> <<0, opts.Fwmark>>],
     addr |-> <<m.Hostname, m.Port>>]

\* C7: after handleAuth returns success the auth goroutine resolves the auth
\* scope and leaves the root scope alone; a tcp stream of that connection is
\* dialed, while the transport stays open, once, to the host and port of its
\* header with the configured mark, and a successful dial is followed by one
\* RelayTCP.
C7_AuthenticatedTcpIsDialed ==
    /\ [](\A c \in Conns :
            /\ AuthSucceeded(c) /\ ctxDone[c] => connpc[c] = "returned"
            /\ authpc[c] = "resolved" => authCtxDone[c]
            /\ \A st \in Streams :
                  /\ Dialed(c, st) =>
                        /\ stream[c][st].mdata.Network = "tcp"
                        /\ stream[c][st].dials = <<ExpectedDial(stream[c][st].mdata)>>
                  /\ stream[c][st].mdata.Network = "tcp" /\ Relayed(c, st) =>
                        Dialed(c, st) /\ stream[c][st].relays = <<"RelayTCP">>
                  /\ stream[c][st].pc = "RelayTCP" => Relayed(c, st))
    /\ \A c \in OnePeer, st \in Opened :
          (/\ AuthSucceeded(c)
           /\ stream[c][st].mdata.Network = "tcp"
           /\ stream[c][st].pc \in {"gate", "select"})
             ~> (Dialed(c, st) \/ ~IsOpen(c))

C7_Witness ==
    \E c \in Conns, st \in Streams :
        /\ authpc[c] = "resolved"
        /\ IsOpen(c)
        /\ ~ctxDone[c]
        /\ stream[c][st].pc = "RelayTCP"
        /\ stream[c][st].dials =
              <<[network |-> [Network |-> "tcp", Mark |-> <<0, 7>>],
                 addr |-> <<"example.org", 80>>]>>

\* C8: a stream whose network is neither tcp nor udp never reaches the dialer
\* or a relay; on an authenticated connection whose root scope is live its
\* dispatcher returns the unexpected network error.
C8_OtherNetworkNeverDialed ==
    \A c \in Conns, st \in Streams :
        stream[c][st].mdata.Network \notin {"", "tcp", "udp"} =>
            /\ ~Dialed(c, st) /\ ~Relayed(c, st)
            /\ stream[c][st].pc \notin {"Dial", "RelayTCP", "RelayUoT"}
            /\ stream[c][st].pc = "done" /\ AuthSucceeded(c) /\ ~ctxDone[c]
                  => stream[c][st].err = "unexpected network"

C8_Witness ==
    \E c \in Conns, st \in Streams :
        /\ authpc[c] = "resolved"
        /\ stream[c][st].mdata.Network = "sctp"
        /\ stream[c][st].pc = "done"
        /\ stream[c][st].err = "unexpected network"

\* C9: Serve returns only on a failed ListenAddr or a failed Accept, with
\* that error; accepting a connection leaves it accepting; no step of a
\* handleConn, its return included, changes Serve.
C9_OnlyListenerErrorsEndServe ==
    [][/\ servepc' = "returned" /\ servepc # "returned" =>
            /\ serveErr' = (IF servepc = "listen" THEN "listen error" ELSE "accept error")
            /\ UNCHANGED connVars
       /\ \A c \in Conns :
            /\ connpc[c] = "none" /\ connpc'[c] # "none" => servepc' = "accept"
            /\ connpc[c] # "none" /\ connpc'[c] # connpc[c] =>
                  UNCHANGED <<servepc, serveErr>>]_vars

C9_Witness ==
    /\ connpc[1] = "returned"
    /\ connErr[1] = "closed by peer"
    /\ connpc[2] = "none"
    /\ servepc = "accept"
    /\ ENABLED Serve_Accept(2)

\* New failed to build a server from o
NewFails(o) ==
    \/ \E t \in DOMAIN o.Users : uuidParse(t) = ParseError
    \/ ~o.KeyPairOk
    \/ o.SendThrough # "" /\ ~netipParseAddrOk(o.SendThrough)

ExpectedDialer(o) ==
    IF o.SendThrough = "" THEN [kind |-> "FullconeDirect", laddr |-> ""]
    ELSE [kind |-> "DirectDialerLaddr", laddr |-> o.SendThrough]

\* C10 as stated: New returns an error and no Server when an identifier does
\* not parse, the key pair does not load or SendThrough is not an address;
\* otherwise a Server whose users map holds exactly the configured pairs and
\* whose dialer is the one SendThrough selects.
C10_ExactlyConfiguredPairs ==
    srv # NotBuilt =>
        IF NewFails(opts)
        THEN srv.err # "nil" /\ srv.server = NoServer
        ELSE /\ srv.err = "nil"
             /\ DOMAIN srv.server.users = {uuidParse(t) : t \in DOMAIN opts.Users}
             /\ \A t \in DOMAIN opts.Users :
                   srv.server.users[uuidParse(t)] = opts.Users[t]
             /\ srv.server.dialer = ExpectedDialer(opts)

\* C10 as amended: the users map holds, for each identifier the configured
\* texts parse to, the secret of one of the texts that parse to it; that is
\* exactly the configured pairs when no two texts parse to one identifier.
C10_OnePairPerIdentifier ==
    srv # NotBuilt =>
        IF NewFails(opts)
        THEN srv.err # "nil" /\ srv.server = NoServer
        ELSE /\ srv.err = "nil"
             /\ DOMAIN srv.server.users = {uuidParse(t) : t \in DOMAIN opts.Users}
             /\ \A id \in DOMAIN srv.server.users :
                   \E t \in DOMAIN opts.Users :
                       uuidParse(t) = id /\ srv.server.users[id] = opts.Users[t]
             /\ (\A t1, t2 \in DOMAIN opts.Users :
                     uuidParse(t1) = uuidParse(t2) => t1 = t2)
                   => \A t \in DOMAIN opts.Users :
                         srv.server.users[uuidParse(t)] = opts.Users[t]
             /\ srv.server.dialer = ExpectedDialer(opts)

\* C11: a handleConn that returned because AcceptStream timed out or because
\* the root scope was cancelled is not logged by the go func of Serve; any
\* other error it returned is logged.
C11_SilentShutdown ==
    \A c \in Conns :
        connpc[c] = "returned" =>
            IF connErr[c] \in {"idle timeout", "context canceled"}
            THEN logged[c] = "none"
            ELSE logged[c] = connErr[c]

\* handleAuth has returned, with or without an error
HandleAuthReturned(c) == authpc[c] \in {"ok", "resolved", "failed", "cancelled", "closed"}

\* handleAuth has returned an error
AuthFailed(c) == authpc[c] \in {"failed", "cancelled", "closed"}

\* C12: the auth scope of a connection is done only when handleAuth has
\* returned, and the root scope is cancelled only when authentication failed.
C12_ScopesFollowAuthentication ==
    \A c \in Conns :
        /\ authCtxDone[c] => HandleAuthReturned(c)
        /\ ctxDone[c] => AuthFailed(c)

\* handleStream of the stream returned an error
StreamFailed(c, st) == stream[c][st].pc = "done" /\ stream[c][st].err # "nil"

\* C13: the step in which a dispatcher returns an error leaves the root and
\* auth scopes, the transport, the accept loop, the auth goroutine and every
\* sibling stream as they were; and a failed dispatcher does not keep the
\* accept loop from accepting the next stream the peer opens.
C13_StreamFailureIsConfined ==
    /\ [][\A c \in Conns, st \in Streams :
            ~StreamFailed(c, st) /\ StreamFailed(c, st)' =>
                /\ UNCHANGED <<ctxDone, authCtxDone, transport, connpc, connErr,
                               authpc, authErr, serveVars>>
                /\ \A d \in Conns, t \in Streams :
                      <<d, t>> # <<c, st>> => stream'[d][t] = stream[d][t]]_vars
    /\ [](\A c \in Conns, st, t \in Streams :
            /\ StreamFailed(c, st)
            /\ connpc[c] = "accept" /\ IsOpen(c) /\ ~ctxDone[c]
            /\ t = st + 1 /\ t <= opens[c] /\ stream[c][t].pc = "none"
            => ENABLED handleConn_AcceptStream(c, t))

C13_Witness ==
    \E c \in Conns :
        /\ stream[c][1].pc = "done"
        /\ stream[c][1].err = "connection refused"
        /\ stream[c][2].pc = "RelayUoT"
        /\ authpc[c] = "resolved"
        /\ connpc[c] = "accept" /\ IsOpen(c) /\ ~ctxDone[c]

\* All there is of one connection
ConnState(c) == <<connpc[c], connErr[c], logged[c], ctxDone[c], authCtxDone[c],
                  transport[c], authpc[c], authErr[c], timerFired[c], stream[c]>>

\* the dispatcher has gone past <-authCtx.Done()
PastGate(c, st) ==
    \/ stream[c][st].pc \in {"select", "Dial", "RelayTCP", "RelayUoT"}
    \/ stream[c][st].pc = "done" /\ stream[c][st].err # "header error"

\* C14: a step of one connection (its authentication failing, its root scope
\* being cancelled, its transport closing, or any other) leaves the scopes,
\* the authentication outcome and the dispatchers of every other connection
\* unchanged; a stream waits at its gate, or passes it, by the auth scope of
\* its own connection alone.
C14_ConnectionsAreIsolated ==
    /\ [][\A a, b \in Conns :
            a # b /\ ConnState(a)' # ConnState(a) => ConnState(b)' = ConnState(b)]_vars
    /\ [](\A b \in Conns, st \in Streams :
            /\ PastGate(b, st) => authCtxDone[b]
            /\ stream[b][st].pc = "gate" =>
                  (ENABLED handleStream_Gate(b, st) <=> authCtxDone[b]))

C14_Witness ==
    \E a, b \in Conns :
        /\ a # b
        /\ authErr[a] = "token mismatch" /\ authpc[a] = "closed"
        /\ ctxDone[a] /\ transport[a].by = "server"
        /\ authpc[b] = "resolved" /\ ~ctxDone[b] /\ IsOpen(b)
        /\ \E st \in Streams : stream[b][st].pc = "RelayTCP"

\* The errors handleStream returns
StreamExits == {"nil", "header error", "context canceled", "connection refused",
                "relay tcp error", "relay udp error", "unexpected network"}

\* C15: a dispatcher that has terminated, by whichever return of handleStream,
\* has closed its stream.
C15_StreamClosedOnExit ==
    \A c \in Conns, st \in Streams :
        stream[c][st].pc = "done" =>
            stream[c][st].closed /\ stream[c][st].err \in StreamExits

C15_Witness ==
    \E c \in Conns, st \in Streams :
        /\ stream[c][st].pc = "done"
        /\ stream[c][st].err = "relay tcp error"
        /\ stream[c][st].closed

\* How far the auth goroutine has come
AuthRank(pc) ==
    CASE pc = "none" -> 0
      [] pc = "AcceptUniStream" -> 1
      [] pc = "Peek" -> 2
      [] pc = "ReadCommandHead" -> 3
      [] pc = "ReadAuthenticateWithHead" -> 4
      [] pc \in {"ok", "failed"} -> 5
      [] pc \in {"resolved", "cancelled"} -> 6
      [] pc = "closed" -> 7

\* C16: the auth goroutine of a connection starts once, with handleConn, and
\* only moves forward: one wait for a control stream, one read of the command,
\* one comparison; the steps of data streams leave it alone, and the outcome,
\* accepted or rejected with its error, never changes once handleAuth returned.
C16_AuthenticatedAtMostOnce ==
    [][\A c \in Conns :
          /\ authpc'[c] # authpc[c] => AuthRank(authpc'[c]) > AuthRank(authpc[c])
          /\ authpc[c] = "none" /\ authpc'[c] # "none" =>
                connpc[c] = "none" /\ connpc'[c] = "accept" /\ authpc'[c] = "AcceptUniStream"
          /\ AuthSucceeded(c) => AuthSucceeded(c)' /\ authErr'[c] = authErr[c]
          /\ AuthFailed(c) => AuthFailed(c)' /\ authErr'[c] = authErr[c]
          /\ authErr'[c] # authErr[c] =>
                authErr[c] = "none" /\ HandleAuthRunning(c) /\ HandleAuthReturned(c)'
          /\ stream'[c] # stream[c] => authpc'[c] = authpc[c] /\ authErr'[c] = authErr[c]]_vars

C16_Witness ==
    \E c \in Conns, st \in Streams :
        /\ authpc[c] = "resolved"
        /\ authErr[c] = "nil"
        /\ stream[c][st].pc = "done"
        /\ stream[c][st].err = "nil"
        /\ stream[c][st].relays = <<"RelayUoT">>

\* C17: a tcp stream whose Dial timed out has returned nil, unlogged, and one
\* whose Dial failed otherwise has returned that error; RelayTCP was called
\* for neither.
C17_DialFailureEndsStream ==
    \A c \in Conns, st \in Streams :
        LET s == stream[c][st]
        IN  /\ s.dialErr = "i/o timeout" =>
                  s.pc = "done" /\ s.err = "nil" /\ ~s.warned /\ s.relays = <<>>
            /\ s.dialErr = "connection refused" =>
                  /\ s.pc = "done" /\ s.err = "connection refused" /\ s.warned
                  /\ s.relays = <<>>
            /\ s.relays # <<>> /\ s.mdata.Network = "tcp" => s.dialErr = "nil"

C17_Witness ==
    \E c \in Conns, st \in Streams :
        /\ authpc[c] = "resolved"
        /\ stream[c][st].mdata.Network = "tcp"
        /\ stream[c][st].dialErr = "i/o timeout"
        /\ stream[c][st].pc = "done"
        /\ ~stream[c][st].warned

\* C18: after RelayTCP and after RelayUoT alike, a relay that returned nil,
\* EOF, a timeout or an error whose text ends in "with error code 0" makes the
\* dispatcher return nil, unlogged; any other relay error makes it return the
\* wrapped relay error of its network, logged as a warning.
C18_RelayOutcomeClassification ==
    \A c \in Conns, st \in Streams :
        LET s == stream[c][st]
        IN  s.relayErr # "none" =>
              /\ s.pc = "done"
              /\ IF s.relayErr \in {"nil", "EOF", "i/o timeout", "closed 0"}
                 THEN s.err = "nil" /\ ~s.warned
                 ELSE /\ s.warned
                      /\ s.err = (IF s.mdata.Network = "tcp" THEN "relay tcp error"
                                                              ELSE "relay udp error")

C18_Witness ==
    \E c \in Conns, st \in Streams :
        /\ stream[c][st].mdata.Network = "udp"
        /\ stream[c][st].relayErr = "closed 0"
        /\ ErrorText(stream[c][st].relayErr) = <<"closed", "with", "error", "code", "0">>
        /\ stream[c][st].err = "nil"
        /\ ~stream[c][st].warned

\* ceil(L / 10) in integers
CeilTenth(L) ==
    LET q == <<L[1] \div 10, ((L[1] % 10) * Limb + L[2]) \div 10>>
    IN  IF L[2] % 10 = 0 THEN q ELSE <<q[1] + (q[2] + 1) \div Limb, (q[2] + 1) % Limb>>

\* L + ceil(L / 10)
WithHeadroom(L) ==
    LET h == CeilTenth(L)
    IN  <<L[1] + h[1] + (L[2] + h[2]) \div Limb, (L[2] + h[2]) % Limb>>

C20_NoDispatcherLeftAtGate ==
    /\ [](\A c \in Conns :
            /\ connpc[c] = "returned" => ctxDone[c] /\ authCtxDone[c]
            /\ connpc[c] = "defer cancel" => authCtxDone[c])
    /\ [][\A c \in Conns, st \in Streams :
            /\ connpc[c] = "returned"
            /\ stream[c][st].pc \in {"gate", "select"}
            /\ stream'[c][st].pc \notin {"gate", "select"}
            => /\ stream'[c][st].pc = "done"
               /\ stream'[c][st].closed
               /\ stream'[c][st].err = "context canceled"]_vars
    /\ \A c \in OnePeer, st \in Opened :
          (connpc[c] \in {"defer cancel", "returned"} /\ stream[c][st].pc = "gate")
             ~> (stream[c][st].pc \notin {"gate", "select"})

C20_Witness ==
    \E c \in Conns, st \in Streams :
        /\ connpc[c] = "returned"
        /\ connErr[c] = "idle timeout"
        /\ authpc[c] = "AcceptUniStream"
        /\ stream[c][st].pc = "done"
        /\ stream[c][st].mdata.Network = "udp"
        /\ stream[c][st].err = "context canceled"
        /\ stream[c][st].closed

C10_Witness ==
    /\ srv.err = "nil"
    /\ opts.SendThrough = "192.0.2.1"
    /\ srv.server.dialer.kind = "DirectDialerLaddr"
    /\ \E t1, t2 \in DOMAIN opts.Users :
          /\ t1 # t2
          /\ uuidParse(t1) = uuidParse(t2)
          /\ opts.Users[t1] # opts.Users[t2]
          /\ srv.server.users[uuidParse(t1)] = opts.Users[t2]

====
